---- MODULE Spec2Model ----
(***************************************************************************)
(* Model of the backend of cracly/micro-sphere.                            *)
(*   Spec           backend/fetch_weather_data.py: the two processing      *)
(*                  functions that reshape a provider payload (parallel    *)
(*                  arrays indexed by a shared timestamp list) into        *)
(*                  per-timestamp records                                  *)
(*   SpecMain       main of the same file, statement by statement, run     *)
(*                  after run over the same disk                           *)
(*   SpecAnalysis   backend/mistral_api_analysis.py: the report workflow   *)
(*   SpecDiscovery  backend/devops/geosphere_parameters_diagnostics.py:    *)
(*                  run_discovery of the parameter tester                  *)
(*                                                                         *)
(* Python values are modelled as follows.                                  *)
(*   dict        a function whose DOMAIN is the set of keys present        *)
(*   list        a sequence (index i of Python is index i+1 here)          *)
(*   None        the record None                                           *)
(*   a number    of a data series: the record Datum(code, i) naming the    *)
(*               series and the position the provider sent it at, so that  *)
(*               two data are equal only if they are the same datum        *)
(*   an error    a raised IndexError is the value IndexError; a call whose *)
(*               evaluation meets it returns Raised                        *)
(***************************************************************************)
EXTENDS Integers, Sequences, FiniteSets, TLC

VARIABLES
  api,       \* which provider the payload came from
  data,      \* the payload handed to the processing function
  result,    \* what the last call of the processing function returned
  previous,  \* what the call before it returned
  files,     \* the files on disk: path -> content
  dirs,      \* the directories on disk
  \* main of fetch_weather_data.py
  pc,               \* the statement main is at
  open_meteo_data,  \* what fetch_open_meteo_data returned in this run
  geosphere_data,   \* what fetch_geosphere_data returned in this run
  processed,        \* what the last processing call of this run returned
  sent,             \* the providers this run has sent a request to
  raised_at,        \* the statement whose exception this run's except caught
  cycle,            \* the number of this run
  successes,        \* the runs so far that saved both datasets and returned
  \* the report workflow of mistral_api_analysis.py
  apc,              \* the statement the workflow is at
  workflow,         \* which entry point was called
  weather_data,     \* the workflow's weather_data
  analysis,         \* the workflow's analysis
  returned,         \* what the call returned, or the exception that left it
  calls,            \* what this call has done outside, in order
  analysis_runs,    \* the calls so far
  \* the GeosphereParameterTester of geosphere_parameters_diagnostics.py
  dpc,              \* the statement run_discovery is at
  valid_params,     \* self.valid_params
  invalid_params,   \* self.invalid_params
  tested_params,    \* self.tested_params
  index,            \* i of `for i, param in enumerate(candidates, 1)`
  trace,            \* the requests sent and the sleeps taken, in order
  printed           \* the calls of print_results

mainVars ==
  <<pc, open_meteo_data, geosphere_data, processed, sent, raised_at, cycle, successes>>

alignVars == <<api, data, result, previous>>

analysisVars == <<apc, workflow, weather_data, analysis, returned, calls, analysis_runs>>

discoveryVars ==
  <<dpc, valid_params, invalid_params, tested_params, index, trace, printed>>

toolVars == <<analysisVars, discoveryVars>>

vars == <<alignVars, files, dirs, mainVars, toolVars>>

(* ------------------------------ bounds -------------------------------- *)

\* longest timestamp list of a Geosphere payload and of the hourly section
MaxN == 2

\* longest timestamp list of the daily section
MaxDays == 1

\* how many series of one payload depart from the full-length baseline
MaxDev == 1

\* longest data series: one longer than the longest timestamp list
MaxLen == MaxN + 1

(* --------------------------- Python values ---------------------------- *)

None == [py |-> "None"]

EmptyDict == <<>>

EmptyList == <<>>

IndexError == [raise |-> "IndexError"]

Raised == [raise |-> "exception"]

NotCalled == [call |-> "none"]

Min(a, b) == IF a < b THEN a ELSE b

\* dict.get(key, default)
Get(d, key, default) == IF key \in DOMAIN d THEN d[key] ELSE default

\* truth value of a dict: `if not data`
Truthy(d) == d # None /\ DOMAIN d # {}

\* list[i], Python index i >= 0
GetItem(list, i) == IF i < Len(list) THEN list[i + 1] ELSE IndexError

\* the dict d restricted to the keys in keys
Restrict(d, keys) == [k \in keys |-> d[k]]

Datum(code, i) == [code |-> code, at |-> i]

\* datetime.now(TIMEZONE_CEST).isoformat() at the instants a call can happen
Instants == {"2025-06-01T12:00:00+02:00", "2025-06-01T12:15:00+02:00"}

(* ----------------- the Geosphere payload (the input) ------------------ *)

\* parameter codes requested from the nowcast API, in the order of the URL
GeosphereCodes == <<"t2m", "rr", "td", "dd", "ff", "fx">>

CodeSet == {GeosphereCodes[k] : k \in 1..Len(GeosphereCodes)}

\* the unit label the provider sends with each parameter
ProviderUnit ==
  [t2m |-> "degree_Celsius", rr |-> "kg m-2", td |-> "degree_Celsius",
   dd |-> "degree", ff |-> "m s-1", fx |-> "m s-1"]

\* ISO 8601 timestamps of the forecast steps
TimestampTable ==
  <<"2025-06-01T10:00+00:00", "2025-06-01T10:15+00:00", "2025-06-01T10:30+00:00",
    "2025-06-01T10:45+00:00", "2025-06-01T11:00+00:00", "2025-06-01T11:15+00:00">>

Timestamps(n) == [i \in 1..n |-> TimestampTable[i]]

\* the data list of length len the provider sends for a series
Values(code, len) == [i \in 1..len |-> Datum(code, i - 1)]

\* the shapes one entry of "parameters" can have: with or without "data"
\* (of any length up to MaxLen), with or without "unit"
Absent == [present |-> FALSE, hasData |-> FALSE, len |-> 0, hasUnit |-> FALSE]

Shapes ==
  {[present |-> TRUE, hasData |-> TRUE, len |-> l, hasUnit |-> u] :
     l \in 0..MaxLen, u \in BOOLEAN}
  \cup {[present |-> TRUE, hasData |-> FALSE, len |-> 0, hasUnit |-> u] : u \in BOOLEAN}
  \cup {Absent}

SeriesOf(code, shape) ==
  Restrict([data |-> Values(code, shape.len), unit |-> ProviderUnit[code]],
           (IF shape.hasData THEN {"data"} ELSE {})
             \cup (IF shape.hasUnit THEN {"unit"} ELSE {}))

Baseline(n) == [present |-> TRUE, hasData |-> TRUE, len |-> n, hasUnit |-> TRUE]

\* the "parameters" mapping in which the codes in DOMAIN dev have the shape
\* dev gives them and every other code has the full-length baseline
ParametersOf(n, dev) ==
  [code \in {c \in CodeSet : c \notin DOMAIN dev \/ dev[c].present} |->
     SeriesOf(code, IF code \in DOMAIN dev THEN dev[code] ELSE Baseline(n))]

Deviations(fields) ==
  UNION {[d -> Shapes] : d \in {s \in SUBSET fields : Cardinality(s) <= MaxDev}}

\* what "features" is when a piece of the path features[0].properties.parameters
\* is missing
BrokenFeatures ==
  {EmptyList, <<EmptyDict>>, <<[properties |-> EmptyDict]>>,
   <<[properties |-> [parameters |-> EmptyDict]]>>}

FeaturesOf(parameters) == <<[properties |-> [parameters |-> parameters]]>>

GeospherePayload(n, features) ==
  [version |-> 1, timestamps |-> Timestamps(n), features |-> features]

\* the Geosphere payloads: the complete payload with up to MaxDev departing
\* series, and every subset of the top-level keys (the empty payload included)
\* with the complete or a broken "features"
GeospherePayloads ==
  {GeospherePayload(n, FeaturesOf(ParametersOf(n, dev))) :
     n \in 0..MaxN, dev \in Deviations(CodeSet)}
  \cup UNION {
         {Restrict(GeospherePayload(n, f), keys) :
            keys \in SUBSET {"version", "timestamps", "features"},
            f \in BrokenFeatures \cup {FeaturesOf(ParametersOf(n, EmptyDict))}}
         : n \in 0..MaxN}

(* ---------------------- process_geosphere_data ------------------------ *)

\* mutant of ValueAt: past its end a series repeats its last value
ValueAt_forwardFill(series, i) ==
  IF i < Len(series) THEN GetItem(series, i)
  ELSE IF Len(series) > 0 THEN series[Len(series)] ELSE None

\* x[i] if i < len(x) else None
ValueAt(series, i) == IF i < Len(series) THEN GetItem(series, i) ELSE None

\* data["features"][0]["properties"]["parameters"] under try/except
ExtractParameters(d) ==
  IF /\ "features" \in DOMAIN d
     /\ Len(d["features"]) > 0
     /\ "properties" \in DOMAIN d["features"][1]
     /\ "parameters" \in DOMAIN d["features"][1]["properties"]
  THEN d["features"][1]["properties"]["parameters"]
  ELSE EmptyDict

\* parameters.get(code, {}).get("data", [])
SeriesData(parameters, code) == Get(Get(parameters, code, EmptyDict), "data", EmptyList)

\* mutant of SeriesUnit: one fallback for every field
SeriesUnit_sharedDefault(parameters, code, default) ==
  Get(Get(parameters, code, EmptyDict), "unit", "°C")

\* parameters.get(code, {}).get("unit", default)
SeriesUnit(parameters, code, default) ==
  Get(Get(parameters, code, EmptyDict), "unit", default)

\* mutant of GeosphereEntry: a field without a value is left out of the record
GeosphereEntry_dropNulls(timestamps, parameters, i) ==
  LET full == [time |-> timestamps[i + 1],
               temperature |-> ValueAt(SeriesData(parameters, "t2m"), i),
               precipitation |-> ValueAt(SeriesData(parameters, "rr"), i),
               dew_point |-> ValueAt(SeriesData(parameters, "td"), i),
               wind_direction |-> ValueAt(SeriesData(parameters, "dd"), i),
               wind_speed |-> ValueAt(SeriesData(parameters, "ff"), i),
               wind_gust |-> ValueAt(SeriesData(parameters, "fx"), i)]
  IN  Restrict(full, {"time"} \cup {k \in DOMAIN full \ {"time"} : full[k] # None})

GeosphereEntry(timestamps, parameters, i) ==
  [time |-> timestamps[i + 1],
   temperature |-> ValueAt(SeriesData(parameters, "t2m"), i),
   precipitation |-> ValueAt(SeriesData(parameters, "rr"), i),
   dew_point |-> ValueAt(SeriesData(parameters, "td"), i),
   wind_direction |-> ValueAt(SeriesData(parameters, "dd"), i),
   wind_speed |-> ValueAt(SeriesData(parameters, "ff"), i),
   wind_gust |-> ValueAt(SeriesData(parameters, "fx"), i)]

\* mutant of GeosphereForecast: timestamps zipped with the temperature series
GeosphereForecast_zipped(timestamps, parameters) ==
  [k \in 1..Min(Len(timestamps), Len(SeriesData(parameters, "t2m"))) |->
     GeosphereEntry(timestamps, parameters, k - 1)]

\* mutant of GeosphereForecast: newest record first
GeosphereForecast_reversed(timestamps, parameters) ==
  [k \in 1..Len(timestamps) |->
     GeosphereEntry(timestamps, parameters, Len(timestamps) - k)]

GeosphereForecast(timestamps, parameters) ==
  [k \in 1..Len(timestamps) |-> GeosphereEntry(timestamps, parameters, k - 1)]

\* mutant of GeosphereUnits: the wind direction unit read from the wind speed
GeosphereUnits_copied(parameters) ==
  [temperature |-> SeriesUnit(parameters, "t2m", "°C"),
   precipitation |-> SeriesUnit(parameters, "rr", "kg m-2"),
   dew_point |-> SeriesUnit(parameters, "td", "°C"),
   wind_direction |-> SeriesUnit(parameters, "ff", "m s-1"),
   wind_speed |-> SeriesUnit(parameters, "ff", "m s-1"),
   wind_gust |-> SeriesUnit(parameters, "fx", "m s-1")]

GeosphereUnits(parameters) ==
  [temperature |-> SeriesUnit(parameters, "t2m", "°C"),
   precipitation |-> SeriesUnit(parameters, "rr", "kg m-2"),
   dew_point |-> SeriesUnit(parameters, "td", "°C"),
   wind_direction |-> SeriesUnit(parameters, "dd", "m s-1"),
   wind_speed |-> SeriesUnit(parameters, "ff", "m s-1"),
   wind_gust |-> SeriesUnit(parameters, "fx", "m s-1")]

\* mutant of GeosphereTimestamps: no timestamps without "features"
GeosphereTimestamps_needFeatures(d) ==
  IF "features" \in DOMAIN d THEN Get(d, "timestamps", EmptyList) ELSE EmptyList

\* data.get("timestamps", [])
GeosphereTimestamps(d) == Get(d, "timestamps", EmptyList)

\* mutant of GeosphereHeader: the time of the call under a second key
GeosphereHeader_stamped(now) ==
  [location |-> "Kledering", last_updated |-> now, source |-> "Geosphere",
   forecast_type |-> "nowcast", forecast_period |-> "3 hour",
   resolution |-> "15 minute", fetched_at |-> now]

GeosphereHeader(now) ==
  [location |-> "Kledering", last_updated |-> now, source |-> "Geosphere",
   forecast_type |-> "nowcast", forecast_period |-> "3 hour",
   resolution |-> "15 minute"]

\* an IndexError met while building the records propagates out of the call
EntryRaises(entry) == \E k \in DOMAIN entry \ {"time"} : entry[k] = IndexError

process_geosphere_data(d, now) ==
  IF ~Truthy(d) THEN None
  ELSE IF ExtractParameters(d) = None THEN Raised
  ELSE LET timestamps == GeosphereTimestamps(d)
           parameters == ExtractParameters(d)
           forecast_data == GeosphereForecast(timestamps, parameters)
       IN  IF \E k \in DOMAIN forecast_data : EntryRaises(forecast_data[k])
           THEN Raised
           ELSE GeosphereHeader(now)
                  @@ [forecast_data |-> forecast_data,
                      units |-> GeosphereUnits(parameters)]

(* ----------------- the Open-Meteo payload (the input) ----------------- *)

HourlyFields ==
  {"temperature_2m", "rain", "cloud_cover", "visibility", "wind_speed_10m",
   "wind_direction_10m", "wind_gusts_10m"}

DailyFields ==
  {"temperature_2m_max", "temperature_2m_min", "sunrise", "sunset",
   "daylight_duration", "uv_index_max", "precipitation_sum"}

DayTable ==
  <<"2025-06-01", "2025-06-02", "2025-06-03", "2025-06-04", "2025-06-05",
    "2025-06-06">>

Days(n) == [i \in 1..n |-> DayTable[i]]

\* the shapes a series of a section can have: missing, or a list of any
\* length up to MaxLen
ListShapes ==
  {[present |-> TRUE, len |-> l] : l \in 0..MaxLen}
  \cup {[present |-> FALSE, len |-> 0]}

ListDeviations(fields) ==
  UNION {[d -> ListShapes] : d \in {s \in SUBSET fields : Cardinality(s) <= MaxDev}}

\* a section ("hourly" or "daily"): its "time" list and one list per field;
\* the fields in DOMAIN dev have the shape dev gives them, the others have
\* the length of the time list
SectionOf(fields, times, dev) ==
  [key \in {"time"} \cup {f \in fields : f \notin DOMAIN dev \/ dev[f].present} |->
     IF key = "time" THEN times
     ELSE Values(key, IF key \in DOMAIN dev THEN dev[key].len ELSE Len(times))]

CurrentBlock ==
  [time |-> "2025-06-01T12:00", temperature_2m |-> Datum("current.temperature_2m", 0),
   apparent_temperature |-> Datum("current.apparent_temperature", 0),
   precipitation |-> Datum("current.precipitation", 0),
   wind_speed_10m |-> Datum("current.wind_speed_10m", 0),
   wind_gusts_10m |-> Datum("current.wind_gusts_10m", 0),
   wind_direction_10m |-> Datum("current.wind_direction_10m", 0),
   cloud_cover |-> Datum("current.cloud_cover", 0)]

CurrentUnits ==
  [temperature_2m |-> "degC", precipitation |-> "inch", wind_speed_10m |-> "m/s",
   cloud_cover |-> "percent"]

OpenMeteoPayload(hourly, daily) ==
  [latitude |-> 48, current |-> CurrentBlock, current_units |-> CurrentUnits,
   hourly |-> hourly, daily |-> daily]

CompleteHourly(n) == SectionOf(HourlyFields, Timestamps(n), EmptyDict)

CompleteDaily(n) == SectionOf(DailyFields, Days(n), EmptyDict)

\* a section with a piece missing: empty, or without its "time" list
BrokenSections(section) == {EmptyDict, Restrict(section, DOMAIN section \ {"time"})}

\* the Open-Meteo payloads: the complete payload with up to MaxDev departing
\* series in one of the two sections (the other section complete and of full
\* length), and every subset of the top-level keys (the empty payload
\* included) with complete or broken sections of every length
OpenMeteoPayloads ==
  {OpenMeteoPayload(SectionOf(HourlyFields, Timestamps(n), dev), CompleteDaily(MaxDays)) :
     n \in 0..MaxN, dev \in ListDeviations(HourlyFields)}
  \cup {OpenMeteoPayload(CompleteHourly(MaxN), SectionOf(DailyFields, Days(m), dev)) :
          m \in 0..MaxDays, dev \in ListDeviations(DailyFields)}
  \cup UNION {
         {Restrict(OpenMeteoPayload(h, d), keys) :
            keys \in SUBSET {"latitude", "current", "current_units", "hourly", "daily"},
            h \in BrokenSections(CompleteHourly(n)) \cup {CompleteHourly(n)},
            d \in BrokenSections(CompleteDaily(m)) \cup {CompleteDaily(m)}}
         : n \in 0..MaxN, m \in 0..MaxDays}

(* --------------------- process_data_for_frontend ---------------------- *)

\* section.get(key, [])[i] if key in section and i < len(section[key]) else None
SectionValueAt(section, key, i) ==
  IF key \in DOMAIN section /\ i < Len(section[key])
  THEN GetItem(Get(section, key, EmptyList), i)
  ELSE None

\* data.get("current", {}).get(key)
CurrentValue(d, key) == Get(Get(d, "current", EmptyDict), key, None)

\* data.get("current_units", {}).get(key, default)
CurrentUnit(d, key, default) == Get(Get(d, "current_units", EmptyDict), key, default)

CurrentWeather(d) ==
  [time |-> CurrentValue(d, "time"),
   temperature |-> [value |-> CurrentValue(d, "temperature_2m"),
                    unit |-> CurrentUnit(d, "temperature_2m", "°C"),
                    feels_like |-> CurrentValue(d, "apparent_temperature")],
   precipitation |-> [value |-> CurrentValue(d, "precipitation"),
                      unit |-> CurrentUnit(d, "precipitation", "mm")],
   wind |-> [speed |-> CurrentValue(d, "wind_speed_10m"),
             gusts |-> CurrentValue(d, "wind_gusts_10m"),
             direction |-> CurrentValue(d, "wind_direction_10m"),
             unit |-> CurrentUnit(d, "wind_speed_10m", "km/h")],
   cloud_cover |-> [value |-> CurrentValue(d, "cloud_cover"),
                    unit |-> CurrentUnit(d, "cloud_cover", "%")]]

HourData(hourly, times, i) ==
  [time |-> times[i + 1],
   temperature |-> SectionValueAt(hourly, "temperature_2m", i),
   rain |-> SectionValueAt(hourly, "rain", i),
   cloud_cover |-> SectionValueAt(hourly, "cloud_cover", i),
   visibility |-> SectionValueAt(hourly, "visibility", i),
   wind |-> [speed |-> SectionValueAt(hourly, "wind_speed_10m", i),
             direction |-> SectionValueAt(hourly, "wind_direction_10m", i),
             gusts |-> SectionValueAt(hourly, "wind_gusts_10m", i)]]

ProcessedHourly(hourly) ==
  LET times == Get(hourly, "time", EmptyList)
  IN  [k \in 1..Len(times) |-> HourData(hourly, times, k - 1)]

DayData(daily, times, i) ==
  [date |-> times[i + 1],
   temperature |-> [max |-> SectionValueAt(daily, "temperature_2m_max", i),
                    min |-> SectionValueAt(daily, "temperature_2m_min", i)],
   sun |-> [sunrise |-> SectionValueAt(daily, "sunrise", i),
            sunset |-> SectionValueAt(daily, "sunset", i),
            daylight_duration |-> SectionValueAt(daily, "daylight_duration", i)],
   uv_index_max |-> SectionValueAt(daily, "uv_index_max", i),
   precipitation_sum |-> SectionValueAt(daily, "precipitation_sum", i)]

ProcessedDaily(daily) ==
  LET times == Get(daily, "time", EmptyList)
  IN  [k \in 1..Len(times) |-> DayData(daily, times, k - 1)]

\* the values a record holds, those of its nested objects included
HourValues(h) ==
  {h.temperature, h.rain, h.cloud_cover, h.visibility, h.wind.speed,
   h.wind.direction, h.wind.gusts}

DayValues(r) ==
  {r.temperature.max, r.temperature.min, r.sun.sunrise, r.sun.sunset,
   r.sun.daylight_duration, r.uv_index_max, r.precipitation_sum}

\* `if daily:` guards the daily section: without it the key is never set
HasDailyForecast(daily) == Truthy(daily)

process_data_for_frontend(d, now) ==
  IF ~Truthy(d) THEN None
  ELSE IF Get(d, "hourly", EmptyDict) = None THEN Raised
  ELSE LET hourly == Get(d, "hourly", EmptyDict)
           daily == Get(d, "daily", EmptyDict)
           processed_hourly == ProcessedHourly(hourly)
           processed_daily == ProcessedDaily(daily)
           base == [location |-> "Kledering", last_updated |-> now,
                    current_weather |-> CurrentWeather(d),
                    hourly_forecast |-> processed_hourly]
       IN  IF \E k \in DOMAIN processed_hourly :
                IndexError \in HourValues(processed_hourly[k])
           THEN Raised
           ELSE IF ~HasDailyForecast(daily) THEN base
           ELSE IF \E k \in DOMAIN processed_daily :
                     IndexError \in DayValues(processed_daily[k])
           THEN Raised
           ELSE base @@ [daily_forecast |-> processed_daily]

(* ------------------------------ save_data ----------------------------- *)

FRONTEND_PUBLIC_DIR == "frontend/public/backend/data"

\* f"data/{prefix}{filename}"
DataPath(prefix, filename) == [dir |-> "data", prefix |-> prefix, name |-> filename]

\* os.path.join(FRONTEND_PUBLIC_DIR, os.path.basename(path))
FrontendPath(path) ==
  [dir |-> FRONTEND_PUBLIC_DIR, prefix |-> path.prefix, name |-> path.name]

\* open(path, "w") and json.dump: the file is created or overwritten
WriteFile(fs, path, content) ==
  [q \in DOMAIN fs \cup {path} |-> IF q = path THEN content ELSE fs[q]]

\* shutil.copy of a processed file into the frontend directory
copy_to_frontend_public_dir(fs, path) == WriteFile(fs, FrontendPath(path), fs[path])

\* mutant of save_data: a raw file is copied to the frontend as well
save_data_copiesRaw(fs, content, filename, is_processed) ==
  IF is_processed
  THEN copy_to_frontend_public_dir(
         WriteFile(fs, DataPath("processed_", filename), content),
         DataPath("processed_", filename))
  ELSE copy_to_frontend_public_dir(
         WriteFile(fs, DataPath("raw_", filename), content),
         DataPath("raw_", filename))

save_data(fs, content, filename, is_processed) ==
  IF is_processed
  THEN copy_to_frontend_public_dir(
         WriteFile(fs, DataPath("processed_", filename), content),
         DataPath("processed_", filename))
  ELSE WriteFile(fs, DataPath("raw_", filename), content)

\* os.makedirs("data") and os.makedirs("data/archive"), exist_ok
ensure_directories(ds) == ds \cup {"data", "data/archive"}

\* the directories on disk after save_data: ensure_directories, and
\* os.makedirs(FRONTEND_PUBLIC_DIR) when the file is copied to the frontend
save_data_dirs(ds, is_processed) ==
  IF is_processed THEN ensure_directories(ds) \cup {FRONTEND_PUBLIC_DIR}
  ELSE ensure_directories(ds)

\* the metadata main saves when an exception reaches its except clause
ErrorMetadata(now) ==
  [last_update |-> now,
   sources |-> <<[name |-> "Open-Meteo API", status |-> "unknown"],
                 [name |-> "Geosphere API", status |-> "unknown"]>>,
   status |-> "error", error_message |-> "exception"]

NoFiles == <<>>

\* no report workflow has been called
AnalysisIdle ==
  /\ apc = "idle"
  /\ workflow = "none"
  /\ weather_data = None
  /\ analysis = None
  /\ returned = NotCalled
  /\ calls = <<>>
  /\ analysis_runs = 0

\* GeosphereParameterTester.__init__, before run_discovery
DiscoveryIdle ==
  /\ dpc = "idle"
  /\ valid_params = {}
  /\ invalid_params = {}
  /\ tested_params = {}
  /\ index = 0
  /\ trace = <<>>
  /\ printed = 0

\* main is not running
MainIdle ==
  /\ pc = "idle"
  /\ open_meteo_data = None
  /\ geosphere_data = None
  /\ processed = NotCalled
  /\ sent = {}
  /\ raised_at = "none"
  /\ cycle = 0
  /\ successes = 0

(* --------------------------- state machine ---------------------------- *)

\* a payload has arrived and one of the two processing functions is about
\* to be applied to it
Init ==
  /\ \/ api = "geosphere" /\ data \in GeospherePayloads
     \/ api = "open_meteo" /\ data \in OpenMeteoPayloads
  /\ result = NotCalled
  /\ previous = NotCalled
  /\ files = NoFiles
  /\ dirs = {}
  /\ MainIdle
  /\ AnalysisIdle
  /\ DiscoveryIdle

\* a call process_geosphere_data(data)
CallGeosphere ==
  /\ api = "geosphere"
  /\ \E now \in Instants : result' = process_geosphere_data(data, now)
  /\ previous' = result
  /\ UNCHANGED <<api, data, files, dirs, mainVars, toolVars>>

\* a call process_data_for_frontend(data)
CallOpenMeteo ==
  /\ api = "open_meteo"
  /\ \E now \in Instants : result' = process_data_for_frontend(data, now)
  /\ previous' = result
  /\ UNCHANGED <<api, data, files, dirs, mainVars, toolVars>>

\* what main does with a processed payload: save it for the frontend, or,
\* when processing raised, save the error metadata from the except clause
SaveOutcome(fs, outcome, filename, now) ==
  IF outcome = Raised
  THEN save_data(fs, ErrorMetadata(now), "metadata.json", FALSE)
  ELSE save_data(fs, outcome, filename, TRUE)

\* main, `if open_meteo_data:` branch: save raw, process, save processed
MainOpenMeteo ==
  /\ api = "open_meteo"
  /\ Truthy(data)
  /\ \E now \in Instants :
       LET processed_open_meteo == process_data_for_frontend(data, now)
       IN  /\ result' = processed_open_meteo
           /\ files' = SaveOutcome(save_data(files, data, "open_meteo.json", FALSE),
                                   processed_open_meteo, "open_meteo.json", now)
           /\ dirs' = save_data_dirs(dirs, processed_open_meteo # Raised)
  /\ previous' = result
  /\ UNCHANGED <<api, data, mainVars, toolVars>>

\* main, `if geosphere_data:` branch: save raw, process, save processed
MainGeosphere ==
  /\ api = "geosphere"
  /\ Truthy(data)
  /\ \E now \in Instants :
       LET processed_geosphere == process_geosphere_data(data, now)
       IN  /\ result' = processed_geosphere
           /\ files' = SaveOutcome(save_data(files, data, "geosphere.json", FALSE),
                                   processed_geosphere, "geosphere.json", now)
           /\ dirs' = save_data_dirs(dirs, processed_geosphere # Raised)
  /\ previous' = result
  /\ UNCHANGED <<api, data, mainVars, toolVars>>

Next == CallGeosphere \/ CallOpenMeteo \/ MainOpenMeteo \/ MainGeosphere

Spec == Init /\ [][Next]_vars

(* ------------------------- reading the input -------------------------- *)

Called == result # NotCalled

IsDataset(r) == r \notin {NotCalled, None, Raised}

\* the timestamp list the Geosphere payload carries
SentTimestamps == IF "timestamps" \in DOMAIN data THEN data["timestamps"] ELSE EmptyList

\* whether the payload carries the mapping features[0].properties.parameters
PathIntact ==
  /\ "features" \in DOMAIN data
  /\ data["features"] # EmptyList
  /\ "properties" \in DOMAIN data["features"][1]
  /\ "parameters" \in DOMAIN data["features"][1]["properties"]

\* whether the payload carries a series for the code, and that series
HasSeries(code) ==
  PathIntact /\ code \in DOMAIN data["features"][1]["properties"]["parameters"]

SentSeries(code) == data["features"][1]["properties"]["parameters"][code]

\* the data list the payload carries for the code (none: the empty list)
SentData(code) ==
  IF HasSeries(code) /\ "data" \in DOMAIN SentSeries(code)
  THEN SentSeries(code)["data"] ELSE EmptyList

\* the section of the Open-Meteo payload (none: the empty mapping)
SentSection(name) == IF name \in DOMAIN data THEN data[name] ELSE EmptyDict

SentTimes(name) ==
  IF "time" \in DOMAIN SentSection(name) THEN SentSection(name)["time"] ELSE EmptyList

SentList(name, key) ==
  IF key \in DOMAIN SentSection(name) THEN SentSection(name)[key] ELSE EmptyList

\* the output field each Geosphere parameter code is reported under
FieldOf ==
  [t2m |-> "temperature", rr |-> "precipitation", td |-> "dew_point",
   dd |-> "wind_direction", ff |-> "wind_speed", fx |-> "wind_gust"]

TrackedFields == {FieldOf[c] : c \in CodeSet}

\* the value an hourly record reports for a series of the hourly section
HourlyColumn(rec, key) ==
  CASE key = "temperature_2m" -> rec.temperature
    [] key = "rain" -> rec.rain
    [] key = "cloud_cover" -> rec.cloud_cover
    [] key = "visibility" -> rec.visibility
    [] key = "wind_speed_10m" -> rec.wind.speed
    [] key = "wind_direction_10m" -> rec.wind.direction
    [] key = "wind_gusts_10m" -> rec.wind.gusts

\* the value a daily record reports for a series of the daily section
DailyColumn(rec, key) ==
  CASE key = "temperature_2m_max" -> rec.temperature.max
    [] key = "temperature_2m_min" -> rec.temperature.min
    [] key = "sunrise" -> rec.sun.sunrise
    [] key = "sunset" -> rec.sun.sunset
    [] key = "daylight_duration" -> rec.sun.daylight_duration
    [] key = "uv_index_max" -> rec.uv_index_max
    [] key = "precipitation_sum" -> rec.precipitation_sum

\* the fallback unit of each field
DefaultUnit ==
  [temperature |-> "°C", precipitation |-> "kg m-2", dew_point |-> "°C",
   wind_direction |-> "m s-1", wind_speed |-> "m s-1", wind_gust |-> "m s-1"]

(* ------------------------------- claims ------------------------------- *)

\* C1: whenever the payload carries a timestamp list of length N, the call
\* raises nothing and returns a dataset whose record sequence has exactly N
\* records, whatever the lengths of the data series: forecast_data for
\* Geosphere, hourly_forecast and daily_forecast for Open-Meteo.
C1_LengthIsTimestampLength ==
  Called =>
    /\ (api = "geosphere" /\ "timestamps" \in DOMAIN data) =>
         /\ IsDataset(result)
         /\ Len(result.forecast_data) = Len(data["timestamps"])
    /\ (api = "open_meteo" /\ "time" \in DOMAIN SentSection("hourly")) =>
         /\ IsDataset(result)
         /\ Len(result.hourly_forecast) = Len(SentTimes("hourly"))
    /\ (api = "open_meteo" /\ "time" \in DOMAIN SentSection("daily")) =>
         /\ IsDataset(result)
         /\ "daily_forecast" \in DOMAIN result
         /\ Len(result.daily_forecast) = Len(SentTimes("daily"))

\* a Geosphere call on MaxN timestamps with a temperature series longer than
\* that returned MaxN records
C1_Witness ==
  /\ Called
  /\ api = "geosphere"
  /\ Len(SentTimestamps) = MaxN
  /\ Len(SentData("t2m")) > MaxN
  /\ Len(SentData("rr")) = MaxN
  /\ IsDataset(result)
  /\ Len(result.forecast_data) = MaxN

\* C2: a series that is present with M values, M smaller than the number N of
\* timestamps, gives its own value, unchanged, to each of the first M records
\* and null to the others; all N records are there and nothing is raised.
C2_ShortSeriesPadsWithNull ==
  Called =>
    /\ api = "geosphere" =>
         \A code \in CodeSet :
           (/\ HasSeries(code)
            /\ "data" \in DOMAIN SentSeries(code)
            /\ Len(SentData(code)) < Len(SentTimestamps)) =>
             /\ IsDataset(result)
             /\ Len(result.forecast_data) = Len(SentTimestamps)
             /\ \A k \in 1..Len(SentTimestamps) :
                  result.forecast_data[k][FieldOf[code]] =
                    IF k <= Len(SentData(code)) THEN SentData(code)[k] ELSE None
    /\ api = "open_meteo" =>
         /\ \A key \in HourlyFields :
              (/\ key \in DOMAIN SentSection("hourly")
               /\ Len(SentList("hourly", key)) < Len(SentTimes("hourly"))) =>
                /\ IsDataset(result)
                /\ Len(result.hourly_forecast) = Len(SentTimes("hourly"))
                /\ \A k \in 1..Len(SentTimes("hourly")) :
                     HourlyColumn(result.hourly_forecast[k], key) =
                       IF k <= Len(SentList("hourly", key))
                       THEN SentList("hourly", key)[k] ELSE None
         /\ \A key \in DailyFields :
              (/\ key \in DOMAIN SentSection("daily")
               /\ Len(SentList("daily", key)) < Len(SentTimes("daily"))) =>
                /\ IsDataset(result)
                /\ "daily_forecast" \in DOMAIN result
                /\ Len(result.daily_forecast) = Len(SentTimes("daily"))
                /\ \A k \in 1..Len(SentTimes("daily")) :
                     DailyColumn(result.daily_forecast[k], key) =
                       IF k <= Len(SentList("daily", key))
                       THEN SentList("daily", key)[k] ELSE None

\* a Geosphere call on MaxN timestamps with a temperature series one shorter:
\* the last record has a null temperature and its own wind speed
C2_Witness ==
  /\ Called
  /\ api = "geosphere"
  /\ MaxN >= 2
  /\ Len(SentTimestamps) = MaxN
  /\ HasSeries("t2m")
  /\ Len(SentData("t2m")) = MaxN - 1
  /\ IsDataset(result)
  /\ result.forecast_data[MaxN].temperature = None
  /\ result.forecast_data[MaxN - 1].temperature = Datum("t2m", MaxN - 2)
  /\ result.forecast_data[MaxN].wind_speed = Datum("ff", MaxN - 1)

\* C3: a field whose series is absent from the Geosphere parameters is null
\* in every record, and the units mapping reports the fallback unit of that
\* field.
C3_AbsentFieldIsNullWithDefaultUnit ==
  (Called /\ api = "geosphere" /\ Truthy(data)) =>
    \A code \in CodeSet :
      ~HasSeries(code) =>
        /\ IsDataset(result)
        /\ \A k \in DOMAIN result.forecast_data :
             result.forecast_data[k][FieldOf[code]] = None
        /\ result.units[FieldOf[code]] = DefaultUnit[FieldOf[code]]

\* a Geosphere call on a payload whose parameters lack "t2m" only
C3_Witness ==
  /\ Called
  /\ api = "geosphere"
  /\ PathIntact
  /\ ~HasSeries("t2m")
  /\ HasSeries("td")
  /\ Len(SentTimestamps) = MaxN
  /\ IsDataset(result)
  /\ Len(result.forecast_data) = MaxN
  /\ result.forecast_data[MaxN].temperature = None
  /\ result.units.temperature = "°C"

\* C4: the records are in the order of the timestamp list: record i carries
\* timestamp i, and a value it carries for a field is the one at position i
\* of that field's series.
C4_RecordsFollowTimestampOrder ==
  (Called /\ IsDataset(result)) =>
    /\ api = "geosphere" =>
         \A k \in DOMAIN result.forecast_data :
           /\ k <= Len(SentTimestamps)
           /\ result.forecast_data[k].time = SentTimestamps[k]
           /\ \A code \in CodeSet :
                result.forecast_data[k][FieldOf[code]] # None =>
                  /\ k <= Len(SentData(code))
                  /\ result.forecast_data[k][FieldOf[code]] = SentData(code)[k]
    /\ api = "open_meteo" =>
         /\ \A k \in DOMAIN result.hourly_forecast :
              /\ k <= Len(SentTimes("hourly"))
              /\ result.hourly_forecast[k].time = SentTimes("hourly")[k]
              /\ \A key \in HourlyFields :
                   HourlyColumn(result.hourly_forecast[k], key) # None =>
                     /\ k <= Len(SentList("hourly", key))
                     /\ HourlyColumn(result.hourly_forecast[k], key) =
                          SentList("hourly", key)[k]
         /\ "daily_forecast" \in DOMAIN result =>
              \A k \in DOMAIN result.daily_forecast :
                /\ k <= Len(SentTimes("daily"))
                /\ result.daily_forecast[k].date = SentTimes("daily")[k]
                /\ \A key \in DailyFields :
                     DailyColumn(result.daily_forecast[k], key) # None =>
                       /\ k <= Len(SentList("daily", key))
                       /\ DailyColumn(result.daily_forecast[k], key) =
                            SentList("daily", key)[k]

\* a Geosphere call returned at least two records, the first and the last
\* carrying the first and the last timestamp and datum
C4_Witness ==
  /\ Called
  /\ api = "geosphere"
  /\ MaxN >= 2
  /\ Len(SentTimestamps) = MaxN
  /\ IsDataset(result)
  /\ result.forecast_data[1].time = TimestampTable[1]
  /\ result.forecast_data[MaxN].time = TimestampTable[MaxN]
  /\ result.forecast_data[1].dew_point = Datum("td", 0)
  /\ result.forecast_data[MaxN].dew_point = Datum("td", MaxN - 1)

\* C5: the unit reported for a field is the unit its own series carries, as
\* sent, and the fallback unit of the field when the series carries none or
\* is absent; nothing else of the payload decides it.
C5_UnitIsSeriesUnitOrDefault ==
  (Called /\ api = "geosphere" /\ Truthy(data)) =>
    /\ IsDataset(result)
    /\ \A code \in CodeSet :
         result.units[FieldOf[code]] =
           IF HasSeries(code) /\ "unit" \in DOMAIN SentSeries(code)
           THEN SentSeries(code)["unit"]
           ELSE DefaultUnit[FieldOf[code]]

\* a Geosphere call on a payload whose wind direction series carries no unit
\* while the temperature series carries the provider's
C5_Witness ==
  /\ Called
  /\ api = "geosphere"
  /\ HasSeries("dd")
  /\ "unit" \notin DOMAIN SentSeries("dd")
  /\ HasSeries("t2m")
  /\ "unit" \in DOMAIN SentSeries("t2m")
  /\ IsDataset(result)
  /\ result.units.wind_direction = "m s-1"
  /\ result.units.temperature = "degree_Celsius"

\* a returned dataset without the time of the call
WithoutCallTime(r) ==
  IF IsDataset(r) THEN Restrict(r, DOMAIN r \ {"last_updated"}) ELSE r

TwoCalls == previous # NotCalled /\ result # NotCalled

\* C6 as claimed: two calls on the same payload return the same output.
C6_TwoCallsSameOutput == TwoCalls => previous = result

\* C6 as amended: two calls on the same payload return outputs that differ at
\* most in last_updated.
C6_TwoCallsSameButLastUpdated ==
  TwoCalls => WithoutCallTime(previous) = WithoutCallTime(result)

\* two calls at different instants on a payload with MaxN timestamps
C6_Witness ==
  /\ TwoCalls
  /\ IsDataset(previous)
  /\ IsDataset(result)
  /\ previous.last_updated # result.last_updated
  /\ api = "geosphere"
  /\ Len(result.forecast_data) = MaxN
  /\ previous.forecast_data = result.forecast_data

\* C7 as claimed, for a payload that is not empty: without an "hourly" block
\* hourly_forecast is the empty sequence, and without a "daily" block
\* daily_forecast is the empty sequence.
C7_AbsentSectionGivesEmptySequence ==
  (Called /\ api = "open_meteo" /\ Truthy(data)) =>
    /\ "hourly" \notin DOMAIN data =>
         /\ IsDataset(result)
         /\ result.hourly_forecast = EmptyList
    /\ "daily" \notin DOMAIN data =>
         /\ IsDataset(result)
         /\ "daily_forecast" \in DOMAIN result
         /\ result.daily_forecast = EmptyList

\* whether the Geosphere payload lacks 'timestamps', 'features' or a piece of
\* the path to the parameters
MissingExpectedKey == "timestamps" \notin DOMAIN data \/ ~PathIntact

\* C8 as claimed, for a payload that is not empty: a missing expected key
\* gives an empty forecast_data.
C8_MissingKeyGivesEmptySequence ==
  (Called /\ api = "geosphere" /\ Truthy(data) /\ MissingExpectedKey) =>
    /\ IsDataset(result)
    /\ result.forecast_data = EmptyList

\* C8 as amended: with a missing expected key nothing is raised; the payload
\* without any key gives None; any other gives a dataset with one record per
\* timestamp, none when 'timestamps' is missing, and every field of every
\* record null when the path to the parameters is broken.
C8_MissingKeyDegrades ==
  (Called /\ api = "geosphere" /\ MissingExpectedKey) =>
    IF ~Truthy(data) THEN result = None
    ELSE /\ IsDataset(result)
         /\ Len(result.forecast_data) = Len(SentTimestamps)
         /\ "timestamps" \notin DOMAIN data => result.forecast_data = EmptyList
         /\ ~PathIntact =>
              \A k \in DOMAIN result.forecast_data :
                \A f \in TrackedFields : result.forecast_data[k][f] = None

\* a call on a payload with MaxN timestamps and no 'features' returned MaxN
\* records without values
C8_Witness ==
  /\ Called
  /\ api = "geosphere"
  /\ "features" \notin DOMAIN data
  /\ Len(SentTimestamps) = MaxN
  /\ IsDataset(result)
  /\ Len(result.forecast_data) = MaxN
  /\ result.forecast_data[MaxN].temperature = None

\* C9 as claimed: every call on a mapping returns a dataset with its record
\* sequences, and for Geosphere its units.
C9_AlwaysFullyFormed ==
  Called =>
    /\ IsDataset(result)
    /\ api = "geosphere" => {"forecast_data", "units"} \subseteq DOMAIN result
    /\ api = "open_meteo" =>
         {"hourly_forecast", "daily_forecast"} \subseteq DOMAIN result

\* the dataset main has put into the frontend directory for a source
FrontendFile(filename) == FrontendPath(DataPath("processed_", filename))

InFrontend(filename) == FrontendFile(filename) \in DOMAIN files

HasOutputShape(ds) ==
  /\ IsDataset(ds)
  /\ {"location", "last_updated", "source", "forecast_data", "units"}
       \subseteq DOMAIN ds
  /\ \A k \in DOMAIN ds.forecast_data :
       DOMAIN ds.forecast_data[k] = {"time"} \cup TrackedFields
  /\ DOMAIN ds.units = TrackedFields

HasOpenMeteoShape(ds) ==
  /\ IsDataset(ds)
  /\ {"location", "last_updated", "current_weather", "hourly_forecast"}
       \subseteq DOMAIN ds
  /\ DOMAIN ds \cap {"source", "forecast_data", "units"} = {}
  /\ \A k \in DOMAIN ds.hourly_forecast :
       /\ DOMAIN ds.hourly_forecast[k] =
            {"time", "temperature", "rain", "cloud_cover", "visibility", "wind"}
       /\ DOMAIN ds.hourly_forecast[k].wind = {"speed", "direction", "gusts"}

\* C10 as claimed: every dataset written for the frontend has the output
\* shape.
C10_EveryDatasetHasOutputShape ==
  \A filename \in {"geosphere.json", "open_meteo.json"} :
    InFrontend(filename) => HasOutputShape(files[FrontendFile(filename)])

\* C10 as amended: the Geosphere dataset written for the frontend has the
\* output shape; the Open-Meteo dataset has location, last_updated,
\* current_weather and hourly_forecast, no source, forecast_data or units,
\* and the same keys in every hourly record.
C10_DatasetShapes ==
  /\ InFrontend("geosphere.json") =>
       HasOutputShape(files[FrontendFile("geosphere.json")])
  /\ InFrontend("open_meteo.json") =>
       HasOpenMeteoShape(files[FrontendFile("open_meteo.json")])

\* main has written a Geosphere dataset of MaxN records whose temperature
\* series was one short
C10_Witness ==
  /\ InFrontend("geosphere.json")
  /\ MaxN >= 1
  /\ Len(SentTimestamps) = MaxN
  /\ Len(SentData("t2m")) = MaxN - 1
  /\ Len(files[FrontendFile("geosphere.json")].forecast_data) = MaxN
  /\ files[FrontendFile("geosphere.json")].forecast_data[MaxN].temperature = None

(* ======================== main, run after run ========================= *)

\* most runs of main over one disk
MaxCycles == 2

\* datetime.now().isoformat() in the run of each number: runs do not
\* overlap, and a later run reads a later clock
CycleInstants ==
  <<"2025-06-01T12:00:00+02:00", "2025-06-01T12:15:00+02:00",
    "2025-06-01T12:30:00+02:00", "2025-06-01T12:45:00+02:00">>

RunInstant(n) == CycleInstants[n]

\* what requests.get and raise_for_status make of a request: a
\* RequestException, or a response whose body parses to a payload
TransportError == [ok |-> FALSE]

Delivered(payload) == [ok |-> TRUE, json |-> payload]

\* try: ... return response.json()  except RequestException: return None
fetch_open_meteo_data(response) == IF response.ok THEN response.json ELSE None

fetch_geosphere_data(response) == IF response.ok THEN response.json ELSE None

\* the complete Open-Meteo payload of one hour and one day
FullOpenMeteo == OpenMeteoPayload(CompleteHourly(1), CompleteDaily(1))

\* the payloads Open-Meteo delivers to main: empty, complete, without its
\* "hourly" section, and with "hourly": null, on which
\* process_data_for_frontend raises (hourly.get of None)
MainOpenMeteoPayloads ==
  {EmptyDict, FullOpenMeteo,
   Restrict(FullOpenMeteo, DOMAIN FullOpenMeteo \ {"hourly"}),
   OpenMeteoPayload(None, CompleteDaily(1))}

FullGeosphere == GeospherePayload(1, FeaturesOf(ParametersOf(1, EmptyDict)))

\* the payloads Geosphere delivers to main: empty, complete, without
\* "features" or without "timestamps", and with "parameters": null, on which
\* process_geosphere_data raises (parameters.get of None)
MainGeospherePayloads ==
  {EmptyDict, FullGeosphere,
   Restrict(FullGeosphere, {"version", "timestamps"}),
   Restrict(FullGeosphere, {"version", "features"}),
   GeospherePayload(1, FeaturesOf(None))}

OpenMeteoResponses == {TransportError} \cup {Delivered(p) : p \in MainOpenMeteoPayloads}

GeosphereResponses == {TransportError} \cup {Delivered(p) : p \in MainGeospherePayloads}

\* mutant of AfterOpenMeteoFetch: a failed Open-Meteo fetch skips Geosphere
AfterOpenMeteoFetch_abortsRun(d) ==
  IF Truthy(d) THEN "save_raw_open_meteo" ELSE "save_metadata"

\* `if open_meteo_data:` ... `else: print("Failed to fetch Open-Meteo data.")`,
\* and then the Geosphere fetch in either case
AfterOpenMeteoFetch(d) ==
  IF Truthy(d) THEN "save_raw_open_meteo" ELSE "fetch_geosphere"

\* `if geosphere_data:` ... `else:`, and then the metadata in either case
AfterGeosphereFetch(d) ==
  IF Truthy(d) THEN "save_raw_geosphere" ELSE "save_metadata"

\* mutant of SourceStatus: every source is reported as fetched
SourceStatus_alwaysSuccess(d) == "success"

\* "success" if open_meteo_data else "error"
SourceStatus(d) == IF Truthy(d) THEN "success" ELSE "error"

\* the status main gives the metadata of a run that reached it
MetadataStatus(om, geo) == "success"

\* the metadata of a run that reached the end of the try block
Metadata(now, om, geo) ==
  [last_update |-> now,
   sources |-> <<[name |-> "Open-Meteo API", status |-> SourceStatus(om)],
                 [name |-> "Geosphere API", status |-> SourceStatus(geo)]>>,
   status |-> MetadataStatus(om, geo)]

\* which file save_data(metadata, "metadata.json", ...) of the except clause
\* is called with: is_processed is left at its default
ErrorMetadataIsProcessed == FALSE

\* a state in which main is not running over an empty disk
InitMain ==
  /\ api = "none"
  /\ data = None
  /\ result = NotCalled
  /\ previous = NotCalled
  /\ files = NoFiles
  /\ dirs = {}
  /\ MainIdle
  /\ AnalysisIdle
  /\ DiscoveryIdle

\* main is called (the scheduler starts the script again)
StartRun ==
  /\ pc \in {"idle", "done", "raised"}
  /\ cycle < MaxCycles
  /\ cycle' = cycle + 1
  /\ pc' = "fetch_open_meteo"
  /\ open_meteo_data' = None
  /\ geosphere_data' = None
  /\ processed' = NotCalled
  /\ sent' = {}
  /\ raised_at' = "none"
  /\ UNCHANGED <<alignVars, toolVars, files, dirs, successes>>

\* open_meteo_data = fetch_open_meteo_data(); if open_meteo_data:
FetchOpenMeteo ==
  /\ pc = "fetch_open_meteo"
  /\ \E response \in OpenMeteoResponses :
       /\ open_meteo_data' = fetch_open_meteo_data(response)
       /\ pc' = AfterOpenMeteoFetch(fetch_open_meteo_data(response))
  /\ sent' = sent \cup {"open_meteo"}
  /\ UNCHANGED <<alignVars, toolVars, files, dirs, geosphere_data, processed, raised_at,
                 cycle, successes>>

\* geosphere_data = fetch_geosphere_data(); if geosphere_data:
FetchGeosphere ==
  /\ pc = "fetch_geosphere"
  /\ \E response \in GeosphereResponses :
       /\ geosphere_data' = fetch_geosphere_data(response)
       /\ pc' = AfterGeosphereFetch(fetch_geosphere_data(response))
  /\ sent' = sent \cup {"geosphere"}
  /\ UNCHANGED <<alignVars, toolVars, files, dirs, open_meteo_data, processed, raised_at,
                 cycle, successes>>

\* a call save_data(content, filename, is_processed) at statement `at`: the
\* file is written and main goes on to `next`, or the file system raises
\* (OSError) and control passes to main's except clause
SaveStep(at, content, filename, is_processed, next) ==
  /\ pc = at
  /\ \/ /\ files' = save_data(files, content, filename, is_processed)
        /\ dirs' = save_data_dirs(dirs, is_processed)
        /\ pc' = next
        /\ UNCHANGED raised_at
     \/ /\ pc' = "except"
        /\ raised_at' = at
        /\ UNCHANGED <<files, dirs>>
  /\ UNCHANGED <<alignVars, toolVars, open_meteo_data, geosphere_data, processed, sent, cycle>>

\* save_data(open_meteo_data, "open_meteo.json")
SaveRawOpenMeteo ==
  /\ SaveStep("save_raw_open_meteo", open_meteo_data, "open_meteo.json", FALSE,
              "process_open_meteo")
  /\ UNCHANGED successes

\* save_data(geosphere_data, "geosphere.json")
SaveRawGeosphere ==
  /\ SaveStep("save_raw_geosphere", geosphere_data, "geosphere.json", FALSE,
              "process_geosphere")
  /\ UNCHANGED successes

\* a processing call at statement `at`: its result is kept, or the exception
\* it raises passes control to main's except clause
ProcessStep(at, outcome, next) ==
  /\ pc = at
  /\ IF outcome = Raised
     THEN pc' = "except" /\ raised_at' = at /\ UNCHANGED processed
     ELSE pc' = next /\ processed' = outcome /\ UNCHANGED raised_at
  /\ UNCHANGED <<alignVars, toolVars, files, dirs, open_meteo_data, geosphere_data, sent,
                 cycle, successes>>

\* processed_open_meteo = process_data_for_frontend(open_meteo_data)
ProcessOpenMeteo ==
  ProcessStep("process_open_meteo",
              process_data_for_frontend(open_meteo_data, RunInstant(cycle)),
              "save_processed_open_meteo")

\* processed_geosphere = process_geosphere_data(geosphere_data)
ProcessGeosphere ==
  ProcessStep("process_geosphere",
              process_geosphere_data(geosphere_data, RunInstant(cycle)),
              "save_processed_geosphere")

\* save_data(processed_open_meteo, "open_meteo.json", is_processed=True)
SaveProcessedOpenMeteo ==
  /\ SaveStep("save_processed_open_meteo", processed, "open_meteo.json", TRUE,
              "fetch_geosphere")
  /\ UNCHANGED successes

\* save_data(processed_geosphere, "geosphere.json", is_processed=True)
SaveProcessedGeosphere ==
  /\ SaveStep("save_processed_geosphere", processed, "geosphere.json", TRUE,
              "save_metadata")
  /\ UNCHANGED successes

\* metadata = {...}; save_data(metadata, "metadata.json", is_processed=True),
\* the last statement of the try block
SaveMetadata ==
  /\ SaveStep("save_metadata",
              Metadata(RunInstant(cycle), open_meteo_data, geosphere_data),
              "metadata.json", TRUE, "done")
  /\ successes' =
       IF pc' = "done" /\ Truthy(open_meteo_data) /\ Truthy(geosphere_data)
       THEN successes + 1 ELSE successes

\* except Exception as e: metadata = {...}; save_data(metadata, "metadata.json").
\* An exception of this save_data leaves main
HandleException ==
  /\ pc = "except"
  /\ \/ /\ files' = save_data(files, ErrorMetadata(RunInstant(cycle)), "metadata.json",
                              ErrorMetadataIsProcessed)
        /\ dirs' = save_data_dirs(dirs, ErrorMetadataIsProcessed)
        /\ pc' = "done"
     \/ /\ pc' = "raised"
        /\ UNCHANGED <<files, dirs>>
  /\ UNCHANGED <<alignVars, toolVars, open_meteo_data, geosphere_data, processed, sent,
                 raised_at, cycle, successes>>

NextMain ==
  \/ StartRun
  \/ FetchOpenMeteo
  \/ SaveRawOpenMeteo
  \/ ProcessOpenMeteo
  \/ SaveProcessedOpenMeteo
  \/ FetchGeosphere
  \/ SaveRawGeosphere
  \/ ProcessGeosphere
  \/ SaveProcessedGeosphere
  \/ SaveMetadata
  \/ HandleException

SpecMain == InitMain /\ [][NextMain]_vars

\* the run has ended: main returned, or an exception left it
RunEnded == pc \in {"done", "raised"}

(* ------------------------- claims about main -------------------------- *)

OpenMeteoSteps ==
  {"save_raw_open_meteo", "process_open_meteo", "save_processed_open_meteo"}

GeosphereSteps ==
  {"save_raw_geosphere", "process_geosphere", "save_processed_geosphere"}

\* the request was sent and fetch_open_meteo_data returned None
OpenMeteoFetchFailed == "open_meteo" \in sent /\ open_meteo_data = None

GeosphereFetchFailed == "geosphere" \in sent /\ geosphere_data = None

HasFile(path) == path \in DOMAIN files

\* this run's Geosphere payload is on disk raw, processed, and in the frontend
GeosphereWritten ==
  /\ HasFile(DataPath("raw_", "geosphere.json"))
  /\ files[DataPath("raw_", "geosphere.json")] = geosphere_data
  /\ HasFile(DataPath("processed_", "geosphere.json"))
  /\ files[DataPath("processed_", "geosphere.json")]
       = process_geosphere_data(geosphere_data, RunInstant(cycle))
  /\ HasFile(FrontendPath(DataPath("processed_", "geosphere.json")))
  /\ files[FrontendPath(DataPath("processed_", "geosphere.json"))]
       = files[DataPath("processed_", "geosphere.json")]

\* C11 as stated: at the end of a run in which the Open-Meteo fetch failed or
\* the processing or saving of Open-Meteo data raised, Geosphere has been
\* fetched, and its files are written if its payload is non-empty and its own
\* steps did not raise.
C11_OpenMeteoFailureSparesGeosphere ==
  (RunEnded /\ (OpenMeteoFetchFailed \/ raised_at \in OpenMeteoSteps))
    => /\ "geosphere" \in sent
       /\ (Truthy(geosphere_data) /\ raised_at \notin GeosphereSteps) => GeosphereWritten

\* C11 amended: a failed Open-Meteo fetch aborts that source only (Geosphere
\* is fetched, and written if its payload is non-empty and its own steps do
\* not raise); an exception while processing or saving Open-Meteo data ends
\* the run in the except clause with Geosphere never fetched.
C11_OnlyFetchFailureSparesGeosphere ==
  RunEnded =>
    /\ OpenMeteoFetchFailed =>
         /\ "geosphere" \in sent
         /\ (Truthy(geosphere_data) /\ raised_at \notin GeosphereSteps) => GeosphereWritten
    /\ raised_at \in OpenMeteoSteps =>
         /\ "geosphere" \notin sent
         /\ geosphere_data = None

\* both cases have happened: a run whose Open-Meteo fetch failed wrote the
\* Geosphere files, after a run that an Open-Meteo save ended
C11_Witness ==
  /\ pc = "done"
  /\ cycle = 2
  /\ OpenMeteoFetchFailed
  /\ raised_at = "none"
  /\ Truthy(geosphere_data)
  /\ GeosphereWritten
  /\ ~HasFile(DataPath("raw_", "open_meteo.json"))
  /\ HasFile(DataPath("raw_", "metadata.json"))

ProcessedMetadata == DataPath("processed_", "metadata.json")

FrontendMetadata == FrontendPath(ProcessedMetadata)

RawMetadata == DataPath("raw_", "metadata.json")

MetadataPaths == {ProcessedMetadata, FrontendMetadata, RawMetadata}

\* the metadata artifact the frontend reads was written by this run
MetadataWrittenByThisRun ==
  /\ HasFile(ProcessedMetadata)
  /\ HasFile(FrontendMetadata)
  /\ files[FrontendMetadata] = files[ProcessedMetadata]
  /\ files[ProcessedMetadata].last_update = RunInstant(cycle)

\* the sources list has the two entries, Open-Meteo API then Geosphere API
TwoSourcesInOrder(metadata) ==
  /\ Len(metadata.sources) = 2
  /\ metadata.sources[1].name = "Open-Meteo API"
  /\ metadata.sources[2].name = "Geosphere API"

OpenMeteoLacksSection == Truthy(open_meteo_data) /\ "hourly" \notin DOMAIN open_meteo_data

GeosphereLacksSection ==
  /\ Truthy(geosphere_data)
  /\ {"features", "timestamps"} \ DOMAIN geosphere_data # {}

\* C13 as stated: a run that delivered a payload lacking an expected section
\* and in which nothing raised ends with the metadata artifact of that run
\* showing status "error" for that source or for the run.
C13_MissingSectionIsSurfaced ==
  (RunEnded /\ raised_at = "none")
    => /\ OpenMeteoLacksSection =>
            /\ MetadataWrittenByThisRun
            /\ "error" \in {files[ProcessedMetadata].status,
                            files[ProcessedMetadata].sources[1].status}
       /\ GeosphereLacksSection =>
            /\ MetadataWrittenByThisRun
            /\ "error" \in {files[ProcessedMetadata].status,
                            files[ProcessedMetadata].sources[2].status}

\* the files in the archive directory that ensure_directories creates
ArchiveCopies == {path \in DOMAIN files : path.dir = "data/archive"}

\* the fixed-name files of the two datasets hold what this run fetched
LatestHoldsThisRun ==
  /\ GeosphereWritten
  /\ files[DataPath("raw_", "open_meteo.json")] = open_meteo_data
  /\ files[DataPath("processed_", "open_meteo.json")]
       = process_data_for_frontend(open_meteo_data, RunInstant(cycle))

\* C14 as stated: after k runs that saved both datasets and returned, the
\* archive holds at least k copies, and after such a run the fixed-name files
\* hold that run's data.
C14_EverySaveArchives ==
  RunEnded =>
    /\ Cardinality(ArchiveCopies) >= successes
    /\ (pc = "done" /\ raised_at = "none"
          /\ Truthy(open_meteo_data) /\ Truthy(geosphere_data)) => LatestHoldsThisRun

(* ======================== the report workflow ========================= *)

\* most calls of the report workflow over one disk
MaxAnalyses == 2

\* weather_file_path and save_analysis_path at their defaults
WeatherPath == [dir |-> ".", prefix |-> "", name |-> "weather_data.json"]

ANALYSIS_DIR == "../frontend/public/backend/data"

AnalysisPath == [dir |-> ANALYSIS_DIR, prefix |-> "", name |-> "weather_analysis.json"]

\* how a call ends: with a value, or with an exception leaving it
Returned(v) == [kind |-> "return", value |-> v]

Escaped(e) == [kind |-> "raise", exception |-> e]

\* a string, with where it was made: by the text-generation API, or by an
\* f-string or literal of this file
ApiText(t) == [origin |-> "api", text |-> t]

CodeText(t) == [origin |-> "code", text |-> t]

\* client.chat.complete raised
ApiFailure == [origin |-> "exception", text |-> "timeout"]

\* what client.chat.complete can do: return one of two texts, or raise
ApiResponses == {ApiText("<h2>Clear</h2>"), ApiText("<h2>Rain</h2>"), ApiFailure}

\* the hourly series prepare_weather_summary reads
ReportHourlyFields ==
  {"temperature_2m", "apparent_temperature", "wind_speed_10m", "wind_gusts_10m",
   "wind_direction_10m", "uv_index", "sunshine_duration", "precipitation",
   "precipitation_probability", "relative_humidity_2m", "visibility",
   "weather_code", "cloud_cover"}

FullReport ==
  [latitude |-> 48, longitude |-> 16, timezone |-> "Europe/Vienna",
   hourly |-> SectionOf(ReportHourlyFields, Timestamps(1), EmptyDict)]

\* the payloads the forecast API delivers to the report workflow: complete,
\* without "hourly", with empty hourly lists, and empty
ReportPayloads ==
  {FullReport,
   Restrict(FullReport, DOMAIN FullReport \ {"hourly"}),
   [FullReport EXCEPT !.hourly = SectionOf(ReportHourlyFields, Timestamps(0), EmptyDict)],
   EmptyDict}

\* weather_data['latitude'], ['longitude'], ['timezone'], ['hourly']['time'][0]
\* and the named hourly series: a missing key or an empty list raises
SummaryRaises(d) ==
  \/ {"latitude", "longitude", "timezone", "hourly"} \ DOMAIN d # {}
  \/ ({"time"} \cup ReportHourlyFields) \ DOMAIN d["hourly"] # {}
  \/ Len(d["hourly"]["time"]) = 0

prepare_weather_summary(d) == IF SummaryRaises(d) THEN Raised ELSE [summary_of |-> d]

\* the exceptions the try block of fetch_and_save_weather_data can meet: of
\* requests.get or raise_for_status, of response.json() (a RequestException
\* in requests >= 2.27, a plain ValueError before), and of open or json.dump
FetchFaults ==
  {"RequestException", "requests.JSONDecodeError", "ValueError", "OSError"}

\* isinstance(e, requests.exceptions.RequestException)
IsRequestException(e) == e \in {"RequestException", "requests.JSONDecodeError"}

\* the except clauses of fetch_and_save_weather_data, tried in order: the
\* first returns None; the second names json.JSONEncodeError, which the json
\* module does not have, so evaluating it raises AttributeError out of the
\* function before the third clause is tried
FetchHandler(e) ==
  IF IsRequestException(e) THEN Returned(None) ELSE Escaped("AttributeError")

\* one call of the function in one environment: no fault and a body, or a fault
FetchEnvs ==
  {[fault |-> "none", body |-> b] : b \in ReportPayloads}
  \cup {[fault |-> f, body |-> EmptyDict] : f \in FetchFaults}

fetch_and_save_weather_data(env) ==
  IF env.fault = "none" THEN Returned(env.body) ELSE FetchHandler(env.fault)

\* what the call did outside before it ended
FetchCalls(env) ==
  IF env.fault = "RequestException" THEN <<"requests.get">>
  ELSE IF env.fault \in {"requests.JSONDecodeError", "ValueError"}
  THEN <<"requests.get", "response.json">>
  ELSE <<"requests.get", "response.json", "write weather_data">>

\* analyze_weather_with_mistral: the summary is prepared outside the try
\* block; inside it the API's text is returned, or the message of the
\* exception the API call raised
analyze_weather_with_mistral(d, response) ==
  IF prepare_weather_summary(d) = Raised THEN Raised
  ELSE IF response = ApiFailure THEN CodeText("Error calling Mistral API: timeout")
  ELSE response

\* analysis_data of save_analysis_for_frontend
AnalysisData(now, text) == [timestamp |-> now, analysis |-> text]

\* no report workflow has been called, over an empty disk
InitAnalysis ==
  /\ api = "none"
  /\ data = None
  /\ result = NotCalled
  /\ previous = NotCalled
  /\ files = NoFiles
  /\ dirs = {}
  /\ MainIdle
  /\ AnalysisIdle
  /\ DiscoveryIdle

\* a call of `entry`, which begins at statement `at`
StartCall(entry, at) ==
  /\ apc \in {"idle", "returned", "raised"}
  /\ analysis_runs < MaxAnalyses
  /\ analysis_runs' = analysis_runs + 1
  /\ workflow' = entry
  /\ apc' = at
  /\ weather_data' = None
  /\ analysis' = None
  /\ returned' = NotCalled
  /\ calls' = <<>>
  /\ UNCHANGED <<alignVars, files, dirs, mainVars, discoveryVars>>

\* fetch_and_save_weather_data(save_path) called on its own
StartFetch == StartCall("fetch_and_save_weather_data", "fetch")

\* analyzer.run_complete_analysis()
StartComplete == StartCall("run_complete_analysis", "fetch")

\* analyzer.analyze_from_saved_file(file_path)
StartFromFile == StartCall("analyze_from_saved_file", "load")

\* the tuple a workflow returns from its own except clause
WorkflowError(entry) ==
  IF entry = "run_complete_analysis"
  THEN <<CodeText("Error in complete analysis workflow: exception"), None>>
  ELSE <<CodeText("Error analyzing from saved file: exception"), None>>

\* the body of fetch_and_save_weather_data, and what its caller makes of it:
\* run_complete_analysis catches an exception that leaves it and returns
\* early on None
Fetch ==
  /\ apc = "fetch"
  /\ \E env \in FetchEnvs :
       LET outcome == fetch_and_save_weather_data(env)
       IN  /\ calls' = calls \o FetchCalls(env)
           /\ files' = IF env.fault = "none" THEN WriteFile(files, WeatherPath, env.body)
                       ELSE files
           /\ IF workflow = "fetch_and_save_weather_data"
              THEN /\ returned' = outcome
                   /\ apc' = IF outcome.kind = "return" THEN "returned" ELSE "raised"
                   /\ UNCHANGED weather_data
              ELSE IF outcome.kind = "raise"
              THEN /\ returned' = Returned(WorkflowError(workflow))
                   /\ apc' = "returned"
                   /\ UNCHANGED weather_data
              ELSE IF outcome.value = None
              THEN /\ returned' = Returned(<<CodeText("Failed to fetch weather data"), None>>)
                   /\ apc' = "returned"
                   /\ weather_data' = None
              ELSE /\ weather_data' = outcome.value
                   /\ apc' = "analyze"
                   /\ UNCHANGED returned
  /\ UNCHANGED <<alignVars, dirs, mainVars, discoveryVars, workflow, analysis,
                 analysis_runs>>

\* weather_data = self.load_weather_data(file_path): None when the file is
\* not there
Load ==
  /\ apc = "load"
  /\ calls' = Append(calls, "read weather_data")
  /\ IF WeatherPath \in DOMAIN files
     THEN /\ weather_data' = files[WeatherPath]
          /\ apc' = "analyze"
          /\ UNCHANGED returned
     ELSE /\ weather_data' = None
          /\ returned' =
               Returned(<<CodeText("Failed to load weather data from file"), None>>)
          /\ apc' = "returned"
  /\ UNCHANGED <<alignVars, files, dirs, mainVars, discoveryVars, workflow, analysis,
                 analysis_runs>>

\* analysis = self.analyze_weather_with_mistral(weather_data): an exception of
\* the summary reaches the workflow's except clause before the API is called
Analyze ==
  /\ apc = "analyze"
  /\ IF prepare_weather_summary(weather_data) = Raised
     THEN /\ returned' = Returned(WorkflowError(workflow))
          /\ apc' = "returned"
          /\ UNCHANGED <<analysis, calls>>
     ELSE /\ \E response \in ApiResponses :
               analysis' = analyze_weather_with_mistral(weather_data, response)
          /\ calls' = Append(calls, "chat.complete")
          /\ apc' = "save"
          /\ UNCHANGED returned
  /\ UNCHANGED <<alignVars, files, dirs, mainVars, discoveryVars, workflow,
                 weather_data, analysis_runs>>

\* saved_path = self.save_analysis_for_frontend(analysis, save_analysis_path);
\* return analysis, saved_path.  The function catches its own exceptions and
\* returns None for the path
Save ==
  /\ apc = "save"
  /\ calls' = Append(calls, "write analysis")
  /\ \/ /\ files' = WriteFile(files, AnalysisPath,
                              AnalysisData(RunInstant(analysis_runs), analysis))
        /\ dirs' = dirs \cup {ANALYSIS_DIR}
        /\ returned' = Returned(<<analysis, AnalysisPath>>)
     \/ /\ returned' = Returned(<<analysis, None>>)
        /\ UNCHANGED <<files, dirs>>
  /\ apc' = "returned"
  /\ UNCHANGED <<alignVars, mainVars, discoveryVars, workflow, weather_data, analysis,
                 analysis_runs>>

NextAnalysis ==
  \/ StartFetch
  \/ StartComplete
  \/ StartFromFile
  \/ Fetch
  \/ Load
  \/ Analyze
  \/ Save

SpecAnalysis == InitAnalysis /\ [][NextAnalysis]_vars

\* a call has ended
CallEnded == apc \in {"returned", "raised"}

(* ------------------ claims about the report workflow ------------------ *)

\* C15 as stated: a call of fetch_and_save_weather_data ends by returning,
\* never with an exception: it returns None, or the data it has written to
\* the weather file.
C15_FetchReturnsDataOrNone ==
  (workflow = "fetch_and_save_weather_data" /\ CallEnded)
    => /\ apc = "returned"
       /\ returned.kind = "return"
       /\ \/ returned.value = None
          \/ /\ WeatherPath \in DOMAIN files
             /\ returned.value = files[WeatherPath]

\* C16 as stated: whenever the analysis artifact is on disk, its 'analysis'
\* field is a text the text-generation API returned, and it carries the
\* timestamp of the call that wrote it.
C16_StoredAnalysisIsApiText ==
  (AnalysisPath \in DOMAIN files)
    => /\ files[AnalysisPath].analysis.origin = "api"
       /\ files[AnalysisPath].analysis \in ApiResponses
       /\ \E n \in 1..analysis_runs : files[AnalysisPath].timestamp = RunInstant(n)

\* run_complete_analysis has ended and its fetch delivered no weather data
CompleteFetchFailed ==
  /\ workflow = "run_complete_analysis"
  /\ apc \in {"returned", "raised"}
  /\ weather_data = None

\* the call has not raised
CompleteNeverRaises == workflow = "run_complete_analysis" => apc # "raised"

\* the API is called only with fetched data, the artifact written only after
\* the API call, and neither after a failed fetch
CompleteStepsInOrder ==
  workflow = "run_complete_analysis" =>
    /\ \A k \in DOMAIN calls :
         /\ calls[k] = "chat.complete" => weather_data # None
         /\ calls[k] = "write analysis" =>
              \E j \in 1..(k - 1) : calls[j] = "chat.complete"
    /\ CompleteFetchFailed =>
         \A k \in DOMAIN calls : calls[k] \notin {"chat.complete", "write analysis"}

\* C23 as stated: run_complete_analysis never raises; it calls the
\* text-generation API only after a successful fetch and writes the analysis
\* artifact only after the API call; and when the fetch fails it returns
\* ("Failed to fetch weather data", None) without either.
C23_CompleteAnalysisOrdersItsSteps ==
  /\ CompleteNeverRaises
  /\ CompleteStepsInOrder
  /\ CompleteFetchFailed =>
       returned = Returned(<<CodeText("Failed to fetch weather data"), None>>)

(* ======================== the parameter tester ======================== *)

\* self.rate_limit_delay, in seconds
rate_limit_delay == 5

\* the delay the module docstring documents: "150 requests per hour (24
\* seconds between requests to be safe)"
DocumentedDelay == 24

\* how many of the candidates of get_parameter_candidates the model tests
MaxCandidates == 4

\* all_candidates: the concatenation of the code lists, in source order and
\* with its repetitions; the model keeps known_valid, the first entry of
\* temperature_params and of precipitation_params, dewpoint_params, and the
\* codes of wind_params and cloud_params that sort first
all_candidates ==
  <<"t2m", "rr", "td", "t2m", "rr", "td", "d2m", "dp", "dd", "cc", "cl">>

\* the characters of a code, as code points (Python compares str by them)
Spelling ==
  [c \in {"t2m", "rr", "td", "d2m", "dp", "dd", "cc", "cl"} |->
     CASE c = "t2m" -> <<116, 50, 109>>
       [] c = "rr" -> <<114, 114>>
       [] c = "td" -> <<116, 100>>
       [] c = "d2m" -> <<100, 50, 109>>
       [] c = "dp" -> <<100, 112>>
       [] c = "dd" -> <<100, 100>>
       [] c = "cc" -> <<99, 99>>
       [] c = "cl" -> <<99, 108>>]

\* a < b for two str
StrLess(a, b) ==
  \/ \E k \in 1..Min(Len(a), Len(b)) :
       /\ \A j \in 1..(k - 1) : a[j] = b[j]
       /\ a[k] < b[k]
  \/ /\ Len(a) < Len(b)
     /\ \A j \in 1..Len(a) : a[j] = b[j]

RECURSIVE sorted(_)
\* sorted(codes) of a collection without repetitions
sorted(codes) ==
  IF codes = {} THEN <<>>
  ELSE LET first == CHOOSE c \in codes :
                      \A o \in codes \ {c} : StrLess(Spelling[c], Spelling[o])
       IN  <<first>> \o sorted(codes \ {first})

\* mutant of get_parameter_candidates: neither set() nor sorted()
get_parameter_candidates_asListed == all_candidates

\* list(set(all_candidates)), the codes of 2 to 4 characters, sorted
get_parameter_candidates ==
  sorted({c \in {all_candidates[k] : k \in DOMAIN all_candidates} :
            Len(Spelling[c]) >= 2 /\ Len(Spelling[c]) <= 4})

\* the candidates the model tests: the first MaxCandidates of them
Candidates == SubSeq(get_parameter_candidates, 1, MaxCandidates)

\* an entry of the trace: a request (for one parameter, or the unfiltered
\* first request), or a time.sleep
Request(param) == [event |-> "request", param |-> param, seconds |-> 0]

Sleep(seconds) == [event |-> "sleep", param |-> "", seconds |-> seconds]

\* what test_all_first_request can return: the empty set (no features, a
\* status other than 200, a RequestException), or the keys of "parameters"
FirstRequestResults == {{}, {"rr", "t2m", "td"}}

\* how a request of test_parameter can end: 200 with data, 200 without, 422,
\* another status, a RequestException, or an exception the function does not
\* catch (response.json() on a body that is not JSON)
TestOutcomes ==
  {"valid", "no_data", "validation_error", "http_error", "request_exception",
   "unexpected_exception"}

\* the sets after test_parameter(param) with the given outcome: the finally
\* clause adds param to tested_params in every case
ValidAfter(valid, param, outcome) ==
  IF outcome = "valid" THEN valid \cup {param} ELSE valid

InvalidAfter(invalid, param, outcome) ==
  IF outcome \in {"no_data", "validation_error"} THEN invalid \cup {param} ELSE invalid

TestedAfter(tested, param, outcome) == tested \cup {param}

\* `if i < len(candidates):` after the test of candidate i
AfterTest(i) == IF i < Len(Candidates) THEN "sleep" ELSE "print_results"

\* a tester has been constructed and run_discovery not yet called
InitDiscovery ==
  /\ api = "none"
  /\ data = None
  /\ result = NotCalled
  /\ previous = NotCalled
  /\ files = NoFiles
  /\ dirs = {}
  /\ MainIdle
  /\ AnalysisIdle
  /\ DiscoveryIdle

\* tester.run_discovery() up to and including test_all_first_request and the
\* branch on its result: a non-empty result is recorded as valid and printed
FirstRequest ==
  /\ dpc = "idle"
  /\ trace' = Append(trace, Request("*"))
  /\ \/ \E discovered \in FirstRequestResults :
          /\ valid_params' = valid_params \cup discovered
          /\ IF discovered # {}
             THEN dpc' = "done" /\ printed' = printed + 1 /\ index' = index
             ELSE dpc' = "test_parameter" /\ printed' = printed /\ index' = 1
     \/ /\ dpc' = "interrupted"
        /\ UNCHANGED <<valid_params, printed, index>>
  /\ UNCHANGED <<alignVars, files, dirs, mainVars, analysisVars, invalid_params,
                 tested_params>>

\* self.test_parameter(param) for candidate number index
TestParameter ==
  /\ dpc = "test_parameter"
  /\ index <= Len(Candidates)
  /\ trace' = Append(trace, Request(Candidates[index]))
  /\ \E outcome \in TestOutcomes :
       /\ valid_params' = ValidAfter(valid_params, Candidates[index], outcome)
       /\ invalid_params' = InvalidAfter(invalid_params, Candidates[index], outcome)
       /\ tested_params' = TestedAfter(tested_params, Candidates[index], outcome)
       /\ dpc' = IF outcome = "unexpected_exception" THEN "interrupted"
                 ELSE AfterTest(index)
  /\ UNCHANGED <<alignVars, files, dirs, mainVars, analysisVars, index, printed>>

\* time.sleep(self.rate_limit_delay), and the loop goes on to the next candidate
Wait ==
  /\ dpc = "sleep"
  /\ trace' = Append(trace, Sleep(rate_limit_delay))
  /\ index' = index + 1
  /\ dpc' = "test_parameter"
  /\ UNCHANGED <<alignVars, files, dirs, mainVars, analysisVars, valid_params,
                 invalid_params, tested_params, printed>>

\* self.print_results() after the loop
PrintResults ==
  /\ dpc = "print_results"
  /\ printed' = printed + 1
  /\ dpc' = "done"
  /\ UNCHANGED <<alignVars, files, dirs, mainVars, analysisVars, valid_params,
                 invalid_params, tested_params, index, trace>>

\* main's `except Exception`: the results are printed if a valid parameter
\* was found; run_discovery has not returned
Interrupted ==
  /\ dpc = "interrupted"
  /\ printed' = IF valid_params # {} THEN printed + 1 ELSE printed
  /\ dpc' = "aborted"
  /\ UNCHANGED <<alignVars, files, dirs, mainVars, analysisVars, valid_params,
                 invalid_params, tested_params, index, trace>>

NextDiscovery ==
  \/ FirstRequest
  \/ TestParameter
  \/ Wait
  \/ PrintResults
  \/ Interrupted

SpecDiscovery == InitDiscovery /\ [][NextDiscovery]_vars

(* ----------------- claims about the parameter tester ------------------ *)

IsParameterRequest(e) == e.event = "request" /\ e.param # "*"

\* C17 as stated: in the trace of the individual-parameter path two requests
\* never follow each other without a sleep between them, every sleep lasts
\* the rate-limit delay, which is at least the documented 24 seconds, and
\* the finished run does not end with a sleep.
C17_RequestsAreSpacedAsDocumented ==
  /\ \A k \in 1..Len(trace) :
       /\ trace[k].event = "sleep" =>
            /\ trace[k].seconds = rate_limit_delay
            /\ trace[k].seconds >= DocumentedDelay
       /\ (k < Len(trace) /\ IsParameterRequest(trace[k]))
            => ~IsParameterRequest(trace[k + 1])
  /\ (dpc \in {"done", "aborted"} /\ Len(trace) > 0)
       => trace[Len(trace)].event # "sleep"

\* the parameters of the individual requests sent so far, in their order
ParameterRequests ==
  LET requests == SelectSeq(trace, IsParameterRequest)
  IN  [k \in DOMAIN requests |-> requests[k].param]

\* run_discovery has returned through its first path: the unfiltered request
\* discovered parameters
DiscoveredPath ==
  /\ trace = <<Request("*")>>
  /\ valid_params \in FirstRequestResults \ {{}}
  /\ tested_params = {}

\* run_discovery has returned through its second path: the candidates were
\* requested one by one
CandidatePath ==
  /\ trace[1] = Request("*")
  /\ ParameterRequests = Candidates
  /\ tested_params = {ParameterRequests[k] : k \in DOMAIN ParameterRequests}
  /\ valid_params \subseteq tested_params

\* C21: a run_discovery that has returned took one of two paths: the first
\* request discovered a non-empty set, which is the valid set, and no
\* parameter was requested; or every candidate was requested. In both the
\* results were printed once, by the last step. At every moment the
\* parameters requested so far are in strictly ascending str order (so none
\* twice) and are the first candidates of get_parameter_candidates.
C21_DiscoveryTakesOneOfTwoPaths ==
  /\ printed <= 1
  /\ printed = 1 => dpc \in {"done", "aborted"}
  /\ \A k, l \in DOMAIN ParameterRequests :
       k < l => StrLess(Spelling[ParameterRequests[k]], Spelling[ParameterRequests[l]])
  /\ ParameterRequests = SubSeq(Candidates, 1, Len(ParameterRequests))
  /\ dpc = "done" => printed = 1 /\ (DiscoveredPath \/ CandidatePath)

\* run_discovery has returned after testing every candidate, some valid and
\* some invalid
C21_Witness ==
  /\ dpc = "done"
  /\ CandidatePath
  /\ Len(ParameterRequests) = MaxCandidates
  /\ valid_params # {}
  /\ invalid_params # {}

\* every parameter an individual request was sent for is in tested_params
\* (the finally clause of test_parameter), whatever the outcome was
RequestedAreTested ==
  \A k \in DOMAIN ParameterRequests : ParameterRequests[k] \in tested_params

ValidAndInvalidDisjoint == valid_params \cap invalid_params = {}

\* C22 as stated: at every moment valid_params and invalid_params are
\* disjoint subsets of tested_params, so that the counts print_results
\* reports satisfy valid_count + invalid_count <= total_tested, and every
\* parameter test_parameter was called for is in tested_params.
C22_ValidAndInvalidAreTested ==
  /\ ValidAndInvalidDisjoint
  /\ valid_params \subseteq tested_params
  /\ invalid_params \subseteq tested_params
  /\ Cardinality(valid_params) + Cardinality(invalid_params)
       <= Cardinality(tested_params)
  /\ RequestedAreTested

(* ---------------------- claims about save_data ------------------------ *)

\* the statements of main that call save_data without and with is_processed
RawSaves == {"save_raw_open_meteo", "save_raw_geosphere", "except"}

ProcessedSaves == {"save_processed_open_meteo", "save_processed_geosphere", "save_metadata"}

\* the filename argument of the save_data call at the statement main is at
SavedFilename ==
  IF pc \in {"save_raw_open_meteo", "save_processed_open_meteo"} THEN "open_meteo.json"
  ELSE IF pc \in {"save_raw_geosphere", "save_processed_geosphere"} THEN "geosphere.json"
  ELSE "metadata.json"

\* the data argument of that call
SavedContent ==
  IF pc = "save_raw_open_meteo" THEN open_meteo_data
  ELSE IF pc = "save_raw_geosphere" THEN geosphere_data
  ELSE IF pc = "save_metadata"
  THEN Metadata(RunInstant(cycle), open_meteo_data, geosphere_data)
  ELSE IF pc = "except" THEN ErrorMetadata(RunInstant(cycle))
  ELSE processed

\* the call at the statement main is at returned (it did not raise)
SaveReturned == pc' \notin {pc, "except", "raised"}

\* this step leaves every file other than those at `paths` as it was
OnlyWrites(paths) ==
  /\ DOMAIN files' = DOMAIN files \cup paths
  /\ \A q \in DOMAIN files \ paths : files'[q] = files[q]

\* what a returning save_data call does to the disk, by its is_processed
SaveEffect ==
  /\ (pc \in RawSaves /\ SaveReturned)
       => /\ OnlyWrites({DataPath("raw_", SavedFilename)})
          /\ files'[DataPath("raw_", SavedFilename)] = SavedContent
  /\ (pc \in ProcessedSaves /\ SaveReturned)
       => /\ OnlyWrites({DataPath("processed_", SavedFilename),
                         [dir |-> FRONTEND_PUBLIC_DIR, prefix |-> "processed_",
                          name |-> SavedFilename]})
          /\ files'[DataPath("processed_", SavedFilename)] = SavedContent
          /\ files'[[dir |-> FRONTEND_PUBLIC_DIR, prefix |-> "processed_",
                     name |-> SavedFilename]] = SavedContent

\* C18: a save_data call that returns writes one data file. Without
\* is_processed it writes data/raw_<filename> and nothing else, so the
\* processed file and the frontend directory stay as they were; with
\* is_processed it writes data/processed_<filename> and the copy of it, under
\* the same base name, in the frontend directory, and nothing else.
C18_SaveWritesOneDataFile == [][SaveEffect]_vars

\* the second run has saved its raw Open-Meteo payload, and the processed
\* file and its frontend copy still hold what the first run wrote
C18_Witness ==
  /\ pc = "process_open_meteo"
  /\ cycle = 2
  /\ files[DataPath("raw_", "open_meteo.json")] = open_meteo_data
  /\ HasFile(DataPath("processed_", "open_meteo.json"))
  /\ files[DataPath("processed_", "open_meteo.json")].last_updated = RunInstant(1)
  /\ HasFile(FrontendPath(DataPath("processed_", "open_meteo.json")))
  /\ files[FrontendPath(DataPath("processed_", "open_meteo.json"))].last_updated
       = RunInstant(1)

(* --------------------- claims about the metadata ---------------------- *)

\* C19 as stated: when main has returned, the metadata file the frontend
\* reads was written by that run, and if the run went through the except
\* clause it holds the error metadata: status "error", both sources
\* "unknown", and the error message.
C19_ErrorMetadataReachesFrontend ==
  (pc = "done")
    => /\ HasFile(FrontendMetadata)
       /\ files[FrontendMetadata].last_update = RunInstant(cycle)
       /\ (raised_at # "none") => files[FrontendMetadata] = ErrorMetadata(RunInstant(cycle))

\* C20 as stated: a metadata file whose top-level status is "success" has
\* status "success" in every entry of its sources.
C20_SuccessMeansEverySourceSucceeded ==
  \A path \in MetadataPaths \cap DOMAIN files :
    (files[path].status = "success")
      => \A i \in 1..Len(files[path].sources) : files[path].sources[i].status = "success"

====
